---------------------------- MODULE Spec2Model ----------------------------
(***************************************************************************)
(* Model of the profile-creation endpoint                                  *)
(*   POST /users/{user_id}/profile/      (src/src/routes/profiles.py)      *)
(* and of its form schema                (src/src/schemas/profiles.py).    *)
(*                                                                         *)
(* A text is a sequence of one-character strings, so that str.lower(),     *)
(* str.strip() and the f-string that builds the storage key are computed   *)
(* and not assumed.  An optional value (None or a value) is a sequence of  *)
(* length 0 or 1.  Every `await` of the handler ends one atomic step.      *)
(***************************************************************************)
EXTENDS Integers, Sequences, FiniteSets, TLC

\* Number of request slots that may be in flight at the same time.
NReq == 2

Reqs == 1..NReq

-----------------------------------------------------------------------------
(* Text helpers: str.lower, str.strip, str(int).                           *)

UpperChars == <<"D", "E", "H", "J", "N", "O">>
LowerChars == <<"d", "e", "h", "j", "n", "o">>
Whitespace == {" ", "\t"}

IsAlpha(c) ==
    \E i \in 1..Len(UpperChars) : c = UpperChars[i] \/ c = LowerChars[i]

LowerChar(c) ==
    IF \E i \in 1..Len(UpperChars) : c = UpperChars[i]
    THEN LowerChars[CHOOSE i \in 1..Len(UpperChars) : c = UpperChars[i]]
    ELSE c

\* A plausible slip: the name is returned as submitted.
lower_Identity(s) == s

lower(s) == [i \in 1..Len(s) |-> LowerChar(s[i])]

RECURSIVE lstrip(_)
lstrip(s) ==
    IF s # <<>> /\ Head(s) \in Whitespace THEN lstrip(Tail(s)) ELSE s

RECURSIVE rstrip(_)
rstrip(s) ==
    IF s # <<>> /\ s[Len(s)] \in Whitespace
    THEN rstrip(SubSeq(s, 1, Len(s) - 1))
    ELSE s

strip(s) == rstrip(lstrip(s))

Digits == <<"0", "1", "2", "3", "4", "5", "6", "7", "8", "9">>

RECURSIVE IntToStr(_)
IntToStr(n) ==
    IF n < 10 THEN <<Digits[n + 1]>>
    ELSE IntToStr(n \div 10) \o <<Digits[(n % 10) + 1]>>

-----------------------------------------------------------------------------
(* Field policies of the `validation` package (imported at                 *)
(* schemas/profiles.py:6-11; the package itself is not part of src/).      *)

GenderEnum == {"man", "woman"}
PlausibleBirthDates == {"1990-05-17"}
ImageFormats == {"PNG", "JPEG"}

validate_name(name) == \A i \in 1..Len(name) : IsAlpha(name[i])
validate_gender(gender) == gender \in GenderEnum
validate_birth_date(d) == d \in PlausibleBirthDates
validate_image(avatar) == avatar.format \in ImageFormats

-----------------------------------------------------------------------------
(* ProfileCreateRequestSchema: the field validators and as_form.           *)

\* HTTPException(422): no detail is given, so it is the status phrase.
ValidationError == [status_code |-> 422, detail |-> "Unprocessable Entity"]

validate_name_field(name) ==
    IF validate_name(name)
    THEN [ok |-> TRUE, value |-> lower(name)]
    ELSE [ok |-> FALSE, value |-> name]

validate_avatar(avatar) == [ok |-> validate_image(avatar), value |-> avatar]

\* A plausible slip: the gender is passed through unchecked.
validate_gender_field_Unchecked(gender) == [ok |-> TRUE, value |-> gender]

validate_gender_field(gender) ==
    [ok |-> validate_gender(gender), value |-> gender]

validate_date_of_birth(d) == [ok |-> validate_birth_date(d), value |-> d]

validate_info(info) ==
    LET cleaned_info == strip(info)
    IN  [ok |-> cleaned_info # <<>>, value |-> cleaned_info]

\* The fields in the order the model class declares them, which is the order
\* in which their validators run.
FieldOrder ==
    <<"first_name", "last_name", "gender", "date_of_birth", "info", "avatar">>

FieldResults(raw) ==
    [ first_name    |-> validate_name_field(raw.first_name),
      last_name     |-> validate_name_field(raw.last_name),
      gender        |-> validate_gender_field(raw.gender),
      date_of_birth |-> validate_date_of_birth(raw.date_of_birth),
      info          |-> validate_info(raw.info),
      avatar        |-> validate_avatar(raw.avatar) ]

\* cls(...): the first validator that raises ends the construction; the
\* HTTPException it raises carries no field.  raised_in is the validator the
\* exception left from ("" when none raised); it is control flow, not a part
\* of the error the client receives.
as_form(raw) ==
    LET res == FieldResults(raw)
        bad == {i \in 1..Len(FieldOrder) : ~res[FieldOrder[i]].ok}
    IN  IF bad # {}
        THEN [ ok        |-> FALSE,
               data      |-> <<>>,
               error     |-> ValidationError,
               raised_in |-> FieldOrder[CHOOSE i \in bad : \A j \in bad : i <= j] ]
        ELSE [ ok        |-> TRUE,
               data      |-> << [f \in DOMAIN res |-> res[f].value] >>,
               error     |-> [status_code |-> 0, detail |-> ""],
               raised_in |-> "" ]

-----------------------------------------------------------------------------
(* Collaborators the handler calls: the token verifier, the users table,   *)
(* the unique constraint of the profiles table and the object storage.     *)

Token(uid)     == [kind |-> "access", user_id |-> uid]
ExpiredToken   == [kind |-> "expired", user_id |-> 0]
MalformedToken == [kind |-> "malformed", user_id |-> 0]

\* jwt_manager.decode_access_token: the payload, or a BaseSecurityError.
decode_access_token(token) ==
    IF token.kind = "access"
    THEN [ok |-> TRUE, user_id |-> token.user_id, error |-> ""]
    ELSE [ok |-> FALSE, user_id |-> 0,
          error |-> IF token.kind = "expired" THEN "Token has expired."
                    ELSE "Invalid token."]

\* The rows of the users table; the handler never writes it.
UserTable ==
    { [id |-> 1, is_active |-> TRUE,  group |-> "REGULAR"],
      [id |-> 2, is_active |-> TRUE,  group |-> "MODERATOR"],
      [id |-> 3, is_active |-> TRUE,  group |-> "ADMIN"],
      [id |-> 4, is_active |-> FALSE, group |-> "REGULAR"] }

\* select(UserModel).where(UserModel.id == id): the rows found.
SelectUser(id) == {u \in UserTable : u.id = id}

has_group(user, group) == user.group = group

\* A table without the constraint.
UniqueViolation_None(rows, user_id) == FALSE

\* The profiles table refuses a second row with the same user_id.
UniqueViolation(rows, user_id) == \E p \in rows : p.user_id = user_id

\* s3_client.get_file_url: the retrieval URL of a key.
get_file_url(key) == <<"http://storage/">> \o key

-----------------------------------------------------------------------------
(* State.                                                                  *)

VARIABLES
    pc,                 \* where each request's handler stands
    request,            \* the request as received: token, user_id, raw form
    profile_data,       \* the validated form as_form returned
    requesting_user_id, \* handler local
    existing_profile,   \* handler local: rows the uniqueness query found
    avatar_contents,    \* handler local
    avatar_key,         \* handler local
    avatar_url,         \* handler local
    new_profile,        \* handler local: the row the commit inserted
    outcome,            \* status and detail of the response, once sent
    response,           \* body of the 201 response
    raised_in,          \* the validator or handler step the failure left from
    db_calls,           \* statements each request sent to the database
    s3_calls,           \* calls each request made to the object storage
    profiles,           \* the user_profiles table
    storage             \* the bucket: key -> object

locals == <<request, profile_data, requesting_user_id, existing_profile,
            avatar_contents, avatar_key, avatar_url, new_profile>>
vars == <<pc, locals, outcome, response, raised_in, db_calls, s3_calls,
          profiles, storage>>

NoOutcome == [status_code |-> 0, detail |-> ""]

Init ==
    /\ pc = [r \in Reqs |-> "idle"]
    /\ request = [r \in Reqs |-> <<>>]
    /\ profile_data = [r \in Reqs |-> <<>>]
    /\ requesting_user_id = [r \in Reqs |-> 0]
    /\ existing_profile = [r \in Reqs |-> {}]
    /\ avatar_contents = [r \in Reqs |-> ""]
    /\ avatar_key = [r \in Reqs |-> <<>>]
    /\ avatar_url = [r \in Reqs |-> <<>>]
    /\ new_profile = [r \in Reqs |-> <<>>]
    /\ outcome = [r \in Reqs |-> NoOutcome]
    /\ response = [r \in Reqs |-> <<>>]
    /\ raised_in = [r \in Reqs |-> ""]
    /\ db_calls = [r \in Reqs |-> 0]
    /\ s3_calls = [r \in Reqs |-> 0]
    /\ profiles = {}
    /\ storage = [k \in {} |-> ""]

Req(r)    == request[r][1]
Target(r) == Req(r).user_id
Data(r)   == profile_data[r][1]

\* raise HTTPException(status_code, detail) out of step `where`.
Raise(r, status_code, detail, where) ==
    /\ outcome' = [outcome EXCEPT ![r] = [status_code |-> status_code,
                                           detail |-> detail]]
    /\ raised_in' = [raised_in EXCEPT ![r] = where]
    /\ pc' = [pc EXCEPT ![r] = "done"]

Goto(r, label) ==
    /\ pc' = [pc EXCEPT ![r] = label]
    /\ UNCHANGED <<outcome, raised_in>>

-----------------------------------------------------------------------------
(* Inputs.                                                                 *)

John  == <<"J", "O", "H", "N">>
Doe   == <<"D", "o", "e">>
Jo3   == <<"J", "o", "3">>
Hello == <<" ", "h", "e", "l", "l", "o", " ">>
Blank == <<" ", "\t", " ">>
Png(content) ==
    [filename |-> <<"a", ".", "p", "n", "g">>, content |-> content,
     format |-> "PNG"]

ValidForm ==
    [ first_name |-> John, last_name |-> Doe, gender |-> "man",
      date_of_birth |-> "1990-05-17", info |-> Hello, avatar |-> Png("img1") ]

OtherValidForm ==
    [ first_name |-> Doe, last_name |-> John, gender |-> "woman",
      date_of_birth |-> "1990-05-17", info |-> <<"o", " ", "h">>,
      avatar |-> Png("img2") ]

BadGenderForm == [ValidForm EXCEPT !.gender = "unspecified"]
BlankInfoForm == [ValidForm EXCEPT !.info = Blank]

\* Inputs of the concurrent specification.
Tokens    == {Token(1), Token(2), ExpiredToken}
TargetIds == {1, 2}
Forms     == {ValidForm, OtherValidForm}

\* Inputs of the one-request-at-a-time specification.
SeqTokens    == {Token(1), Token(2), Token(3), Token(4), Token(5),
                 ExpiredToken, MalformedToken}
SeqTargetIds == {1, 2, 4, 5}
SeqForms     == {ValidForm, OtherValidForm, BadGenderForm, BlankInfoForm}

\* Inputs of the validator's specification: every combination of these.
AllForms ==
    [ first_name    : {John, Doe, Jo3},
      last_name     : {Doe, Jo3},
      gender        : {"man", "woman", "unspecified"},
      date_of_birth : {"1990-05-17", "1800-01-01"},
      info          : {Hello, Blank, <<>>, <<"h">>},
      avatar        : {Png("img1"), [Png("img1") EXCEPT !.format = "BMP"]} ]

-----------------------------------------------------------------------------
(* The request arrives; FastAPI resolves the dependencies, as_form among   *)
(* them, and only then calls the handler body.                             *)

\* Requests are numbered in the order they arrive.
ReceiveFrom(r, tokens, targets, forms) ==
    /\ pc[r] = "idle"
    /\ IF r = 1 THEN TRUE ELSE pc[r - 1] # "idle"
    /\ \E token \in tokens, user_id \in targets, form \in forms :
          request' = [request EXCEPT ![r] =
              << [token |-> token, user_id |-> user_id, form |-> form] >>]
    /\ Goto(r, "as_form")
    /\ UNCHANGED <<profile_data, requesting_user_id, existing_profile,
                   avatar_contents, avatar_key, avatar_url, new_profile,
                   response, db_calls, s3_calls, profiles, storage>>

Receive(r)     == ReceiveFrom(r, Tokens, TargetIds, Forms)
ReceiveSeq(r)  == ReceiveFrom(r, SeqTokens, SeqTargetIds, SeqForms)
ReceiveForm(r) == ReceiveFrom(r, {Token(1)}, {1}, AllForms)

\* Depends(ProfileCreateRequestSchema.as_form)
AsForm(r) ==
    /\ pc[r] = "as_form"
    /\ LET res == as_form(Req(r).form)
       IN  IF res.ok
           THEN /\ profile_data' = [profile_data EXCEPT ![r] = res.data]
                /\ Goto(r, "decode")
           ELSE /\ Raise(r, res.error.status_code, res.error.detail,
                         res.raised_in)
                /\ UNCHANGED profile_data
    /\ UNCHANGED <<request, requesting_user_id, existing_profile,
                   avatar_contents, avatar_key, avatar_url, new_profile,
                   response, db_calls, s3_calls, profiles, storage>>

-----------------------------------------------------------------------------
(* create_user_profile, one action for each stretch between two awaits.    *)

\* A plausible slip: the wrong status for a token that does not decode.
AuthError_Forbidden(error) == [status_code |-> 403, detail |-> error]

\* routes/profiles.py:38-41
AuthError(error) == [status_code |-> 401, detail |-> error]

\* routes/profiles.py:34-41
Authenticate(r) ==
    /\ pc[r] = "decode"
    /\ LET decoded_token == decode_access_token(Req(r).token)
       IN  IF decoded_token.ok
           THEN /\ requesting_user_id' =
                      [requesting_user_id EXCEPT ![r] = decoded_token.user_id]
                /\ Goto(r, "caller")
           ELSE /\ Raise(r, AuthError(decoded_token.error).status_code,
                         AuthError(decoded_token.error).detail,
                         "Authenticate")
                /\ UNCHANGED requesting_user_id
    /\ UNCHANGED <<request, profile_data, existing_profile, avatar_contents,
                   avatar_key, avatar_url, new_profile, response, db_calls,
                   s3_calls, profiles, storage>>

UserOk(rows) == rows # {} /\ \A u \in rows : u.is_active

\* routes/profiles.py:43-51
ResolveCaller(r) ==
    /\ pc[r] = "caller"
    /\ db_calls' = [db_calls EXCEPT ![r] = @ + 1]
    /\ IF UserOk(SelectUser(requesting_user_id[r]))
       THEN Goto(r, "authorize")
       ELSE Raise(r, 401, "User not found or not active.", "ResolveCaller")
    /\ UNCHANGED <<locals, response, s3_calls, profiles, storage>>

is_privileged(user) ==
    has_group(user, "ADMIN") \/ has_group(user, "MODERATOR")

\* A plausible slip: the ownership test is dropped.
Permitted_Always(caller_id, user_id) == TRUE

Permitted(caller_id, user_id) ==
    ~ (caller_id # user_id
       /\ ~ \A u \in SelectUser(caller_id) : is_privileged(u))

\* routes/profiles.py:53-58
Authorize(r) ==
    /\ pc[r] = "authorize"
    /\ IF Permitted(requesting_user_id[r], Target(r))
       THEN Goto(r, "target")
       ELSE Raise(r, 403, "You don't have permission to edit this profile.",
                  "Authorize")
    /\ UNCHANGED <<locals, response, db_calls, s3_calls, profiles, storage>>

\* routes/profiles.py:60-68
ResolveTarget(r) ==
    /\ pc[r] = "target"
    /\ db_calls' = [db_calls EXCEPT ![r] = @ + 1]
    /\ IF UserOk(SelectUser(Target(r)))
       THEN Goto(r, "profile")
       ELSE Raise(r, 401, "User not found or not active.", "ResolveTarget")
    /\ UNCHANGED <<locals, response, s3_calls, profiles, storage>>

\* routes/profiles.py:70-78
UniquenessCheck(r) ==
    /\ pc[r] = "profile"
    /\ db_calls' = [db_calls EXCEPT ![r] = @ + 1]
    /\ LET found == {p \in profiles : p.user_id = Target(r)}
       IN  /\ existing_profile' = [existing_profile EXCEPT ![r] = found]
           /\ IF found # {}
              THEN Raise(r, 400, "User already has a profile.",
                         "UniquenessCheck")
              ELSE Goto(r, "read")
    /\ UNCHANGED <<request, profile_data, requesting_user_id, avatar_contents,
                   avatar_key, avatar_url, new_profile, response, s3_calls,
                   profiles, storage>>

\* isinstance(exc, cls) for the exceptions the try block can see; every one
\* of them derives from Exception.
IsInstance(exc, cls) == cls = "Exception" \/ exc = cls

\* A plausible slip: only the storage's own error is caught.
Caught_OnlyS3(exc) == IsInstance(exc, "S3FileUploadError")

\* routes/profiles.py:86  except (S3FileUploadError, Exception)
Caught(exc) ==
    IsInstance(exc, "S3FileUploadError") \/ IsInstance(exc, "Exception")

\* An exception leaves the try block of routes/profiles.py:80-90.
TryFailed(r, exc, where) ==
    IF Caught(exc)
    THEN Raise(r, 500, "Failed to upload avatar. Please try again later.",
               where)
    ELSE Raise(r, 500, "Internal Server Error", where)

\* f"avatars/{user_id}_{profile_data.avatar.filename}"
AvatarKey(user_id, filename) ==
    <<"avatars/">> \o IntToStr(user_id) \o <<"_">> \o filename

\* routes/profiles.py:81-82
ReadAvatar(r) ==
    /\ pc[r] = "read"
    /\ \/ /\ avatar_contents' =
                [avatar_contents EXCEPT ![r] = Data(r).avatar.content]
          /\ avatar_key' = [avatar_key EXCEPT ![r] =
                AvatarKey(Target(r), Data(r).avatar.filename)]
          /\ Goto(r, "upload")
       \/ /\ TryFailed(r, "OSError", "ReadAvatar")
          /\ UNCHANGED <<avatar_contents, avatar_key>>
    /\ UNCHANGED <<request, profile_data, requesting_user_id, existing_profile,
                   avatar_url, new_profile, response, db_calls, s3_calls,
                   profiles, storage>>

\* routes/profiles.py:84
UploadAvatar(r) ==
    /\ pc[r] = "upload"
    /\ s3_calls' = [s3_calls EXCEPT ![r] = @ + 1]
    /\ \/ /\ storage' = (avatar_key[r] :> avatar_contents[r]) @@ storage
          /\ Goto(r, "url")
       \/ /\ \E exc \in {"S3FileUploadError", "S3ConnectionError"} :
                TryFailed(r, exc, "UploadAvatar")
          /\ UNCHANGED storage
    /\ UNCHANGED <<locals, response, db_calls, profiles>>

\* routes/profiles.py:85
ResolveUrl(r) ==
    /\ pc[r] = "url"
    /\ s3_calls' = [s3_calls EXCEPT ![r] = @ + 1]
    /\ \/ /\ avatar_url' = [avatar_url EXCEPT ![r] = get_file_url(avatar_key[r])]
          /\ Goto(r, "commit")
       \/ /\ TryFailed(r, "S3ConnectionError", "ResolveUrl")
          /\ UNCHANGED avatar_url
    /\ UNCHANGED <<request, profile_data, requesting_user_id, existing_profile,
                   avatar_contents, avatar_key, new_profile, response,
                   db_calls, profiles, storage>>

\* UserProfileModel(...) of routes/profiles.py:92-100, with the id the table
\* generates at the insert.
NewProfile(r) ==
    [ id            |-> Cardinality(profiles) + 1,
      user_id       |-> Target(r),
      first_name    |-> Data(r).first_name,
      last_name     |-> Data(r).last_name,
      gender        |-> Data(r).gender,
      date_of_birth |-> Data(r).date_of_birth,
      info          |-> Data(r).info,
      avatar        |-> avatar_key[r] ]

\* routes/profiles.py:92-103.  A commit the table refuses raises an
\* IntegrityError nothing catches: the framework answers 500.
Persist(r) ==
    /\ pc[r] = "commit"
    /\ db_calls' = [db_calls EXCEPT ![r] = @ + 1]
    /\ IF UniqueViolation(profiles, Target(r))
       THEN /\ Raise(r, 500, "Internal Server Error", "Persist")
            /\ UNCHANGED <<profiles, new_profile>>
       ELSE /\ profiles' = profiles \cup {NewProfile(r)}
            /\ new_profile' = [new_profile EXCEPT ![r] = <<NewProfile(r)>>]
            /\ Goto(r, "refresh")
    /\ UNCHANGED <<request, profile_data, requesting_user_id, existing_profile,
                   avatar_contents, avatar_key, avatar_url, response,
                   s3_calls, storage>>

\* routes/profiles.py:104-109
Respond(r) ==
    /\ pc[r] = "refresh"
    /\ db_calls' = [db_calls EXCEPT ![r] = @ + 1]
    /\ LET row == CHOOSE p \in profiles : p.id = new_profile[r][1].id
           response_data == [row EXCEPT !.avatar = avatar_url[r]]
       IN  response' = [response EXCEPT ![r] = <<response_data>>]
    /\ outcome' = [outcome EXCEPT ![r] = [status_code |-> 201, detail |-> ""]]
    /\ pc' = [pc EXCEPT ![r] = "done"]
    /\ UNCHANGED <<locals, raised_in, s3_calls, profiles, storage>>

\* The response has been sent and the slot serves the next request.
Reset(r) ==
    /\ pc[r] = "done"
    /\ pc' = [pc EXCEPT ![r] = "idle"]
    /\ request' = [request EXCEPT ![r] = <<>>]
    /\ profile_data' = [profile_data EXCEPT ![r] = <<>>]
    /\ requesting_user_id' = [requesting_user_id EXCEPT ![r] = 0]
    /\ existing_profile' = [existing_profile EXCEPT ![r] = {}]
    /\ avatar_contents' = [avatar_contents EXCEPT ![r] = ""]
    /\ avatar_key' = [avatar_key EXCEPT ![r] = <<>>]
    /\ avatar_url' = [avatar_url EXCEPT ![r] = <<>>]
    /\ new_profile' = [new_profile EXCEPT ![r] = <<>>]
    /\ outcome' = [outcome EXCEPT ![r] = NoOutcome]
    /\ response' = [response EXCEPT ![r] = <<>>]
    /\ raised_in' = [raised_in EXCEPT ![r] = ""]
    /\ db_calls' = [db_calls EXCEPT ![r] = 0]
    /\ s3_calls' = [s3_calls EXCEPT ![r] = 0]
    /\ UNCHANGED <<profiles, storage>>

Handler(r) ==
    \/ Authenticate(r)
    \/ ResolveCaller(r)
    \/ Authorize(r)
    \/ ResolveTarget(r)
    \/ UniquenessCheck(r)
    \/ ReadAvatar(r)
    \/ UploadAvatar(r)
    \/ ResolveUrl(r)
    \/ Persist(r)
    \/ Respond(r)

\* Concurrent requests.
Next == \E r \in Reqs : Receive(r) \/ AsForm(r) \/ Handler(r)
Spec == Init /\ [][Next]_vars

\* One request at a time, any number of them one after the other.
NextSeq == ReceiveSeq(1) \/ AsForm(1) \/ Handler(1) \/ Reset(1)
SpecSeq == Init /\ [][NextSeq]_vars

\* The request validator alone, on every combination of field values.
NextForm == ReceiveForm(1) \/ AsForm(1)
SpecForm == Init /\ [][NextForm]_vars

-----------------------------------------------------------------------------
(* What the properties below read off a request and its inputs.            *)

Done(r)    == pc[r] = "done"
Status(r)  == outcome[r].status_code
Form(r)    == Req(r).form
Arrived(r) == request[r] # <<>>

\* The field policies applied to the raw form, field by field.
FieldValid(form, field) ==
    CASE field = "first_name"    -> validate_name(form.first_name)
      [] field = "last_name"     -> validate_name(form.last_name)
      [] field = "gender"        -> validate_gender(form.gender)
      [] field = "date_of_birth" -> validate_birth_date(form.date_of_birth)
      [] field = "info"          -> \E i \in 1..Len(form.info) :
                                        form.info[i] \notin Whitespace
      [] field = "avatar"        -> validate_image(form.avatar)

FieldsValid(form) == \A i \in 1..Len(FieldOrder) : FieldValid(form, FieldOrder[i])

FirstInvalid(form) ==
    FieldOrder[CHOOSE i \in 1..Len(FieldOrder) :
                  /\ ~FieldValid(form, FieldOrder[i])
                  /\ \A j \in 1..(i - 1) : FieldValid(form, FieldOrder[j])]

TokenDecodes(r) == Req(r).token.kind = "access"
CallerId(r)     == Req(r).token.user_id
ActiveUser(id)  == \E u \in UserTable : u.id = id /\ u.is_active
Privileged(id)  ==
    \E u \in UserTable : u.id = id /\ u.group \in {"MODERATOR", "ADMIN"}

TrySteps == {"ReadAvatar", "UploadAvatar", "ResolveUrl"}
UploadFailure ==
    [status_code |-> 500,
     detail |-> "Failed to upload avatar. Please try again later."]

\* s is t in lower case: same length, each letter of t replaced by its
\* lower-case form.
LowerCased(s, t) ==
    /\ Len(s) = Len(t)
    /\ \A i \in 1..Len(t) :
          \E k \in 1..Len(UpperChars) :
             /\ t[i] \in {UpperChars[k], LowerChars[k]}
             /\ s[i] = LowerChars[k]

\* s is t without its surrounding whitespace.
Trimmed(s, t) ==
    /\ s # <<>> => Head(s) \notin Whitespace /\ s[Len(s)] \notin Whitespace
    /\ \E a \in 0..Len(t), b \in 0..Len(t) :
          /\ a + Len(s) + b = Len(t)
          /\ SubSeq(t, a + 1, a + Len(s)) = s
          /\ \A i \in (1..a) \cup ((Len(t) - b + 1)..Len(t)) :
                t[i] \in Whitespace

-----------------------------------------------------------------------------
(* Properties.                                                             *)

\* C1: in every reachable state the table holds at most one profile for a
\* user_id, and of the concurrent requests for one target that all passed
\* the existing-profile read, at most one has committed a row.
C1_OneProfilePerUser ==
    /\ \A p, q \in profiles : p.user_id = q.user_id => p = q
    /\ \A r1, r2 \in Reqs :
          (/\ r1 # r2
           /\ new_profile[r1] # <<>>
           /\ new_profile[r2] # <<>>) => Target(r1) # Target(r2)

\* C1 witness: two requests for one target both read "no profile" and both
\* reached the commit; one inserted its row and the other was refused.
C1_Witness ==
    \E r1, r2 \in Reqs :
       /\ r1 # r2
       /\ Arrived(r1) /\ Arrived(r2) /\ Target(r1) = Target(r2)
       /\ new_profile[r1] # <<>>
       /\ existing_profile[r2] = {} /\ raised_in[r2] = "Persist"

\* C2: a creation attempt by a permitted, active caller on an active target
\* that ends without creating the profile, while the target has a profile
\* and the storage did not fail, ends with 400 "User already has a
\* profile." and with no other error.
C2_LoserGetsConflict ==
    \A r \in Reqs :
       (/\ Done(r)
        /\ Status(r) # 201
        /\ raised_in[r] \in {"UniquenessCheck", "Persist"}
        /\ \E p \in profiles : p.user_id = Target(r))
       => outcome[r] = [status_code |-> 400,
                        detail |-> "User already has a profile."]

\* C3 as stated: a caller that exists, is active, is not the target and is
\* neither MODERATOR nor ADMIN gets 403 whatever the form fields are.
C3_ForbiddenRegardlessOfFields ==
    \A r \in Reqs :
       (/\ Done(r)
        /\ TokenDecodes(r)
        /\ ActiveUser(CallerId(r))
        /\ CallerId(r) # Target(r)
        /\ ~Privileged(CallerId(r)))
       => Status(r) = 403

\* C3 amended: such a caller gets 403 when the form fields are valid, and
\* the validator's 422 when a field is invalid.
C3_ForbiddenWhenFieldsValid ==
    \A r \in Reqs :
       (/\ Done(r)
        /\ TokenDecodes(r)
        /\ ActiveUser(CallerId(r))
        /\ CallerId(r) # Target(r)
        /\ ~Privileged(CallerId(r)))
       => Status(r) = IF FieldsValid(Form(r)) THEN 403 ELSE 422

\* C3 witness: a regular active caller was refused on another user's profile.
C3_Witness ==
    \E r \in Reqs :
       /\ Done(r)
       /\ TokenDecodes(r) /\ ActiveUser(CallerId(r))
       /\ CallerId(r) # Target(r) /\ ~Privileged(CallerId(r))
       /\ FieldsValid(Form(r))
       /\ Status(r) = 403

\* C4 as stated: a token that does not decode gets 401, also when the body
\* is invalid; no such request ends with 422.
C4_UnauthorizedBeforeValidation ==
    \A r \in Reqs : (Done(r) /\ ~TokenDecodes(r)) => Status(r) = 401

\* C4 amended: a token that does not decode gets 401 when the form fields
\* are valid, before any database call; with an invalid field the request
\* ends with the validator's 422.
C4_UnauthorizedWhenFieldsValid ==
    \A r \in Reqs :
       (Done(r) /\ ~TokenDecodes(r))
       => IF FieldsValid(Form(r))
          THEN Status(r) = 401 /\ db_calls[r] = 0
          ELSE Status(r) = 422

\* C4 witness: an expired token with valid fields was answered 401.
C4_Witness ==
    \E r \in Reqs :
       /\ Done(r)
       /\ Req(r).token = ExpiredToken
       /\ FieldsValid(Form(r))
       /\ Status(r) = 401

\* C5: a request that ends in a failure has inserted no row (the table
\* holds exactly one row for each request that is past its commit and none
\* for any other), a row is inserted only after the request's upload and
\* URL resolution both succeeded, and an exception raised while reading,
\* uploading or resolving the URL is answered with the uniform 500
\* "Failed to upload avatar".
C5_FailureLeavesNoProfile ==
    /\ Cardinality(profiles) =
          Cardinality({r \in Reqs :
                         pc[r] = "refresh" \/ (Done(r) /\ Status(r) = 201)})
    /\ \A r \in Reqs :
          (Done(r) /\ Status(r) # 201) => new_profile[r] = <<>>
    /\ \A r \in Reqs :
          new_profile[r] # <<>> =>
             /\ s3_calls[r] = 2
             /\ avatar_url[r] # <<>>
             /\ avatar_key[r] \in DOMAIN storage
    /\ \A r \in Reqs :
          raised_in[r] \in TrySteps => outcome[r] = UploadFailure

\* C5 witness: a request whose upload raised something other than the
\* storage's own error ended with the uniform 500 and the target has no
\* profile.
C5_Witness ==
    \E r \in Reqs :
       /\ Done(r)
       /\ raised_in[r] = "ResolveUrl"
       /\ outcome[r] = UploadFailure
       /\ ~ \E p \in profiles : p.user_id = Target(r)

\* C6: after a request ended with 201 the table holds exactly one profile
\* for the target; its names are the submitted names in lower case, its
\* info the submitted info without surrounding whitespace, its avatar the
\* key avatars/{user_id}_{filename}; the response is that row with the
\* avatar replaced by the URL of the key, which is not the key.
C6_CreatedProfile ==
    \A r \in Reqs :
       (Done(r) /\ Status(r) = 201) =>
          LET rows == {p \in profiles : p.user_id = Target(r)}
          IN  /\ Cardinality(rows) = 1
              /\ \A p \in rows :
                    /\ LowerCased(p.first_name, Form(r).first_name)
                    /\ LowerCased(p.last_name, Form(r).last_name)
                    /\ Trimmed(p.info, Form(r).info)
                    /\ p.gender = Form(r).gender
                    /\ p.date_of_birth = Form(r).date_of_birth
                    /\ p.avatar = <<"avatars/", Digits[Target(r) + 1], "_">>
                                     \o Form(r).avatar.filename
                    /\ response[r] # <<>>
                    /\ response[r][1] =
                          [p EXCEPT !.avatar = get_file_url(p.avatar)]
                    /\ response[r][1].avatar # p.avatar

\* C6 witness: a request that submitted JOHN and " hello " ended with 201.
C6_Witness ==
    \E r \in Reqs :
       /\ Done(r) /\ Status(r) = 201
       /\ Form(r).first_name = John
       /\ Form(r).info = Hello
       /\ response[r][1].first_name = <<"j", "o", "h", "n">>
       /\ response[r][1].info = <<"h", "e", "l", "l", "o">>

\* C7: a 422 of the validator identifies the field that failed: the error
\* the client receives is returned for no form whose first invalid field
\* is another one.
C7_ErrorIdentifiesField ==
    \A r \in Reqs :
       (Done(r) /\ Status(r) = 422) =>
          \A form \in AllForms :
             (~as_form(form).ok /\ as_form(form).error = outcome[r])
             => FirstInvalid(form) = FirstInvalid(Form(r))

\* Part of C7 that the validator does meet: it returns the validated object
\* exactly when every field is valid, and otherwise the exception leaves
\* from the first invalid field's validator with nothing constructed; an
\* info of whitespace only is refused in validate_info.
C7_FailFast ==
    \A r \in Reqs :
       /\ (pc[r] = "decode") =>
             FieldsValid(Form(r)) /\ profile_data[r] # <<>>
       /\ Done(r) =>
             /\ ~FieldsValid(Form(r))
             /\ Status(r) = 422
             /\ profile_data[r] = <<>>
             /\ raised_in[r] = FirstInvalid(Form(r))

\* C8: a request whose gender is not in the enumerated set is rejected
\* (422) without any database statement or storage call made for it,
\* whatever its token, caller and target.
C8_BadGenderNoAccess ==
    \A r \in Reqs :
       (Arrived(r) /\ ~validate_gender(Form(r).gender)) =>
          /\ pc[r] \in {"as_form", "done"}
          /\ db_calls[r] = 0
          /\ s3_calls[r] = 0
          /\ Done(r) => Status(r) = 422

\* C8 witness: a request with gender "unspecified" and a token that decodes
\* to an active caller acting on their own profile has been rejected.
C8_Witness ==
    \E r \in Reqs :
       /\ Done(r)
       /\ Form(r).gender = "unspecified"
       /\ TokenDecodes(r) /\ ActiveUser(CallerId(r)) /\ CallerId(r) = Target(r)
       /\ Status(r) = 422

\* The outcome C9 gives a request with valid fields: that of the first step
\* that fails, in the order of the steps.
C9_Expected(r) ==
    IF ~TokenDecodes(r) THEN 401
    ELSE IF ~ActiveUser(CallerId(r)) THEN 401
    ELSE IF CallerId(r) # Target(r) /\ ~Privileged(CallerId(r)) THEN 403
    ELSE IF ~ActiveUser(Target(r)) THEN 401
    ELSE IF existing_profile[r] # {} THEN 400
    ELSE IF raised_in[r] \in TrySteps THEN 500
    ELSE 201

\* C9: the outcome of a request with valid fields is the failure of the
\* first step that fails, and 201 when the token decodes, caller and target
\* are active, the caller is permitted, no profile was found and the upload
\* succeeded.
C9_FirstFailureDecides ==
    \A r \in Reqs :
       (Done(r) /\ FieldsValid(Form(r))) => Status(r) = C9_Expected(r)

\* C10: the object stored under a persisted profile's avatar key is the
\* content uploaded by the request that created the profile.
C10_AvatarOfCreator ==
    \A r \in Reqs :
       new_profile[r] # <<>> =>
          storage[new_profile[r][1].avatar] = avatar_contents[r]

=============================================================================
